---- MODULE Spec2Model ----
(***************************************************************************)
(* Model of the wiki revision archiver                                     *)
(*   src/download_wiki_revisions_firs_lab_version.py  (archival run)       *)
(*   src/new_xml_to_dataframe.py                      (table builder)      *)
(*                                                                         *)
(* A revision fragment is the text str(revision); it is modelled by the    *)
(* sub-elements the code looks up in it (revision, id, timestamp, text).   *)
(* Timestamp texts are kept as strings in the state and handed to the      *)
(* parsers as their characters (Chars).  A path root/page/year/month/name  *)
(* is the tuple <<page, year, month, <<stem, ext>>>> with year and month   *)
(* the directory names as characters; the storage root is fixed.           *)
(***************************************************************************)
EXTENDS Integers, Sequences, FiniteSets

VARIABLES
    archive,      \* files under the storage root: path -> file content
    dirs,         \* directories under the storage root (paths of length 1..3)
    pc,           \* archival run: "idle" | "loop" | "done" | "failed"
    page,         \* page title of the current / last archival run
    payload,      \* raw_revisions of the run: [hasPage, revisions]
    idx,          \* number of fragments the update loop has consumed
    base,         \* history: the archive the run started from (a retry keeps that of the failed run)
    kind,         \* history: "fresh" | "rerun" (same payload again) | "retry" (after a failure) | "count"
    first,        \* history: [files, count] of the completed run a rerun repeats
    reported,     \* the count the run printed: <<n>>, or <<>> when it printed none
    error,        \* the exception that ended the run, <<>> when none
    tableStatus,  \* table builder: "none" | "saved" | "empty" | "raised"
    table,        \* rows of the combined table of the last table build
    frames,       \* per article: what process_article_directory returned
    logged,       \* files the table builder logged as failing ("Error processing ...")
    written       \* history: the fragments update runs have written, as <<page, fragment>>

vars == <<archive, dirs, pc, page, payload, idx, base, kind, first, reported,
          error, tableStatus, table, frames, logged, written>>

runVars == <<pc, page, payload, idx, base, kind, first, reported, error>>
tableVars == <<tableStatus, table, frames, logged>>

NONE == "<none>"

-----------------------------------------------------------------------------
(* Bounds *)

\* longest export payload (number of revision fragments) an archival run receives
MaxFragments == 3
\* largest number of files in an archive the table builder is started on
MaxFiles == 3
\* largest batch_size the table builder is called with
MaxBatchSize == 2

\* the ceiling the request applies to --limit
ExportCap == 1000

-----------------------------------------------------------------------------
(* Text, numbers and timestamps *)

Digits == <<"0", "1", "2", "3", "4", "5", "6", "7", "8", "9">>

IsDigit(c) == \E i \in 1..10 : Digits[i] = c

DigitVal(c) == (CHOOSE i \in 1..10 : Digits[i] = c) - 1

RECURSIVE ToInt(_)
ToInt(s) == IF s = <<>> THEN 0
            ELSE 10 * ToInt(SubSeq(s, 1, Len(s) - 1)) + DigitVal(s[Len(s)])

\* str(n) for n >= 0
RECURSIVE IntToStr(_)
IntToStr(n) == IF n < 10 THEN <<Digits[n + 1]>>
               ELSE IntToStr(n \div 10) \o <<Digits[(n % 10) + 1]>>

\* str.zfill(width)
RECURSIVE ZFill(_, _)
ZFill(s, width) == IF Len(s) >= width THEN s ELSE ZFill(<<"0">> \o s, width)

MarText == "2024-03-15T00:00:00Z"
NovText == "2023-11-02T08:30:00Z"
BadText == "2024-13-01T00:00:00Z"

TimestampTexts == {MarText, NovText, BadText}

\* the characters of a timestamp text
Chars(t) ==
    CASE t = MarText -> <<"2","0","2","4","-","0","3","-","1","5","T","0","0",":","0","0",":","0","0","Z">>
      [] t = NovText -> <<"2","0","2","3","-","1","1","-","0","2","T","0","8",":","3","0",":","0","0","Z">>
      [] t = BadText -> <<"2","0","2","4","-","1","3","-","0","1","T","0","0",":","0","0",":","0","0","Z">>

DaysInMonth(y, m) ==
    IF m \in {4, 6, 9, 11} THEN 30
    ELSE IF m = 2
         THEN (IF (y % 4 = 0 /\ y % 100 # 0) \/ y % 400 = 0 THEN 29 ELSE 28)
         ELSE 31

\* the shape %Y-%m-%dT%H:%M:%SZ, fields at their full width
HasIsoShape(s) ==
    /\ Len(s) = 20
    /\ s[5] = "-" /\ s[8] = "-" /\ s[11] = "T"
    /\ s[14] = ":" /\ s[17] = ":" /\ s[20] = "Z"
    /\ \A i \in (1..20) \ {5, 8, 11, 14, 17, 20} : IsDigit(s[i])

IsoFields(s) ==
    [year   |-> ToInt(SubSeq(s, 1, 4)),   month  |-> ToInt(SubSeq(s, 6, 7)),
     day    |-> ToInt(SubSeq(s, 9, 10)),  hour   |-> ToInt(SubSeq(s, 12, 13)),
     minute |-> ToInt(SubSeq(s, 15, 16)), second |-> ToInt(SubSeq(s, 18, 19))]

FieldsInRange(d) ==
    /\ d.year >= 1
    /\ d.month \in 1..12
    /\ d.day \in 1..DaysInMonth(d.year, d.month)
    /\ d.hour \in 0..23
    /\ d.minute \in 0..59
    /\ d.second \in 0..61

\* datetime.strptime(text, "%Y-%m-%dT%H:%M:%SZ") on the characters: [ok, value]
strptime(s) ==
    IF HasIsoShape(s)
    THEN LET d == IsoFields(s) IN
         IF FieldsInRange(d) THEN [ok |-> TRUE, value |-> d]
         ELSE [ok |-> FALSE, value |-> NONE]
    ELSE [ok |-> FALSE, value |-> NONE]

\* strptime of each timestamp text, worked out once
StrptimeOf == [t \in TimestampTexts |-> strptime(Chars(t))]

\* parse_timestring(timestring): [ok, value]
parse_timestring(timestring) == StrptimeOf[timestring]

\* the fields of a timestamp, most significant first
TimeFields(d) == <<d.year, d.month, d.day, d.hour, d.minute, d.second>>

RECURSIVE LexLeq(_, _)
LexLeq(s, t) ==
    IF s = <<>> THEN TRUE
    ELSE IF Head(s) # Head(t) THEN Head(s) < Head(t)
    ELSE LexLeq(Tail(s), Tail(t))

\* a is not later than b
TimeLeq(a, b) == LexLeq(TimeFields(a), TimeFields(b))

-----------------------------------------------------------------------------
(* Revision fragments *)

BodyText == <<"a", "b">>

Fragment(id, ts, hasText) ==
    [rev |-> TRUE, id |-> id, ts |-> ts, hasText |-> hasText,
     text |-> IF hasText THEN BodyText ELSE <<>>]

\* fragments the export collaborator may return
ValidFragments ==
    {Fragment("101", MarText, TRUE), Fragment("101", MarText, FALSE),
     Fragment("101", NovText, TRUE), Fragment("102", MarText, TRUE)}

MalformedFragments ==
    {Fragment(NONE, MarText, TRUE),     \* no id element
     Fragment("102", NONE, TRUE),       \* no timestamp element
     Fragment("101", BadText, TRUE)}    \* timestamp that does not parse

Fragments == ValidFragments \cup MalformedFragments

\* _extract_attribute(text, attribute): [ok, value]; not ok is its ValueError
_extract_attribute(text, attribute) ==
    LET result == CASE attribute = "id" -> text.id
                    [] attribute = "timestamp" -> text.ts
                    [] attribute = "page" -> IF text.hasPage THEN "page" ELSE NONE
    IN IF result = NONE THEN [ok |-> FALSE, value |-> NONE]
       ELSE [ok |-> TRUE, value |-> result]

extract_id(revision) == _extract_attribute(revision, "id")

\* find_timestamp(revision): [ok, value, why]; why is the ValueError of
\* _extract_attribute or of strptime
find_timestamp(revision) ==
    LET t == _extract_attribute(revision, "timestamp") IN
    IF ~t.ok THEN [ok |-> FALSE, value |-> NONE,
                   why |-> <<"Could not find attribute", "timestamp">>]
    ELSE LET d == parse_timestring(t.value) IN
         IF d.ok THEN [ok |-> TRUE, value |-> d.value, why |-> <<>>]
         ELSE [ok |-> FALSE, value |-> NONE,
               why |-> <<"time data does not match format", t.value>>]

-----------------------------------------------------------------------------
(* Paths and the file system *)

\* page titles an archival run is started with
Pages == {"Town"}

\* article directories that may stand under the storage root
Articles == {"Town", "City"}

EmptyArchive == [p \in {} |-> NONE]

Ancestors(path) == {SubSeq(path, 1, k) : k \in 1..(Len(path) - 1)}

IsUnder(path, directory) ==
    /\ Len(path) > Len(directory)
    /\ SubSeq(path, 1, Len(directory)) = directory

\* construct_path with the month directory left unpadded
construct_path_no_zfill(page_name, wiki_revision) ==
    LET revision_id == extract_id(wiki_revision)
        timestamp == find_timestamp(wiki_revision)
    IN IF ~revision_id.ok
       THEN [ok |-> FALSE, path |-> <<>>, why |-> <<"Could not find attribute", "id">>]
       ELSE IF ~timestamp.ok
       THEN [ok |-> FALSE, path |-> <<>>, why |-> timestamp.why]
       ELSE [ok |-> TRUE, why |-> <<>>,
             path |-> <<page_name, IntToStr(timestamp.value.year),
                        IntToStr(timestamp.value.month),
                        <<revision_id.value, "xml">>>>]

\* construct_path with a file name that does not hold the revision id
construct_path_month_name(page_name, wiki_revision) ==
    LET revision_id == extract_id(wiki_revision)
        timestamp == find_timestamp(wiki_revision)
    IN IF ~revision_id.ok
       THEN [ok |-> FALSE, path |-> <<>>, why |-> <<"Could not find attribute", "id">>]
       ELSE IF ~timestamp.ok
       THEN [ok |-> FALSE, path |-> <<>>, why |-> timestamp.why]
       ELSE [ok |-> TRUE, why |-> <<>>,
             path |-> <<page_name, IntToStr(timestamp.value.year),
                        ZFill(IntToStr(timestamp.value.month), 2),
                        <<"revision", "xml">>>>]

\* construct_path(page_name, save_dir, wiki_revision): [ok, path, why]; not ok
\* is the ValueError of extract_id or find_timestamp
construct_path(page_name, wiki_revision) ==
    LET revision_id == extract_id(wiki_revision)
        timestamp == find_timestamp(wiki_revision)
    IN IF ~revision_id.ok
       THEN [ok |-> FALSE, path |-> <<>>, why |-> <<"Could not find attribute", "id">>]
       ELSE IF ~timestamp.ok
       THEN [ok |-> FALSE, path |-> <<>>, why |-> timestamp.why]
       ELSE [ok |-> TRUE, why |-> <<>>,
             path |-> <<page_name, IntToStr(timestamp.value.year),
                        ZFill(IntToStr(timestamp.value.month), 2),
                        <<revision_id.value, "xml">>>>]

\* Path.exists()
exists(fs, path) == path \in DOMAIN fs

\* Path.mkdir(parents=True, exist_ok=True) on the parent of path
mkdir_parents(ds, path) == ds \cup Ancestors(path)

\* write_text that first moves an existing file aside
write_text_keep_backup(fs, path, text) ==
    LET bak == <<path[1], path[2], path[3], <<path[4][1], "bak">>>> IN
    IF path \in DOMAIN fs
    THEN [q \in DOMAIN fs \cup {path, bak} |->
             IF q = path THEN text ELSE IF q = bak THEN fs[path] ELSE fs[q]]
    ELSE [q \in DOMAIN fs \cup {path} |-> IF q = path THEN text ELSE fs[q]]

\* Path.write_text(text): creates the file or replaces its content
write_text(fs, path, text) ==
    [q \in DOMAIN fs \cup {path} |-> IF q = path THEN text ELSE fs[q]]

\* count_files counting folders whatever the flag
count_files_with_folders(fs, ds, directory, folders) ==
    Cardinality({p \in DOMAIN fs : IsUnder(p, directory)})
        + Cardinality({d \in ds : IsUnder(d, directory)})

\* count_files(directory, folders); 0 for a directory that does not exist
count_files(fs, ds, directory, folders) ==
    IF folders
    THEN Cardinality({p \in DOMAIN fs : IsUnder(p, directory)})
             + Cardinality({d \in ds : IsUnder(d, directory)})
    ELSE Cardinality({p \in DOMAIN fs : IsUnder(p, directory)})

\* validate_page that raises nothing
validate_page_accept_all(page_name, page_xml) == <<>>

\* validate_page(page_name, page_xml): <<>> or the error it raises
validate_page(page_name, page_xml) ==
    IF _extract_attribute(page_xml, "page").ok THEN <<>>
    ELSE <<"Page", page_name, "does not exist">>

\* the body of the update loop for one fragment, on the archive alone
save_revision(fs, page_name, wiki_revision) ==
    write_text(fs, construct_path(page_name, wiki_revision).path, wiki_revision)

\* the update loop over a sequence of well-formed fragments
RECURSIVE save_all(_, _, _)
save_all(fs, page_name, revisions) ==
    IF revisions = <<>> THEN fs
    ELSE save_all(save_revision(fs, page_name, Head(revisions)), page_name,
                  Tail(revisions))

-----------------------------------------------------------------------------
(* Export payloads *)

Min(a, b) == IF a <= b THEN a ELSE b

SeqsUpTo(S, n) == UNION {[1..k -> S] : k \in 0..n}

IsWellFormed(revision) == construct_path("Town", revision).ok

\* index of the first malformed fragment, Len + 1 when there is none
FirstMalformed(revisions) ==
    IF \A i \in 1..Len(revisions) : IsWellFormed(revisions[i])
    THEN Len(revisions) + 1
    ELSE CHOOSE j \in 1..Len(revisions) :
            /\ ~IsWellFormed(revisions[j])
            /\ \A i \in 1..(j - 1) : IsWellFormed(revisions[i])

\* download_page_w_revisions(page_title, limit): what the export may answer
Payloads(limit) ==
    [hasPage : BOOLEAN, revisions : SeqsUpTo(Fragments, Min(limit, ExportCap))]

NoPayload == [hasPage |-> FALSE, revisions |-> <<>>]
NoFirst == [files |-> {}, count |-> <<>>]
NoFrames == [a \in Articles |-> [status |-> "notrun", rows |-> <<>>, logged |-> {}]]

-----------------------------------------------------------------------------
(* The archival run: main_count *)

ResetTable ==
    /\ tableStatus' = "none"
    /\ table' = <<>>
    /\ frames' = NoFrames
    /\ logged' = {}

\* main_count(update=True) up to the loop: download, validate_page
BeginUpdate(page_name, raw_revisions) ==
    LET invalid == validate_page(page_name, raw_revisions) IN
    /\ page' = page_name
    /\ payload' = raw_revisions
    /\ idx' = 0
    /\ reported' = <<>>
    /\ error' = invalid
    /\ pc' = IF invalid = <<>> THEN "loop" ELSE "failed"
    /\ UNCHANGED <<archive, dirs, written>>
    /\ ResetTable

\* a run of main_count(page, limit, update=True, data_dir) starts, with the
\* largest limit the model asks for; the export may answer with fewer fragments
MainCountUpdate ==
    /\ pc = "idle"
    /\ \E page_name \in Pages :
         \E raw_revisions \in Payloads(MaxFragments) :
            BeginUpdate(page_name, raw_revisions)
    /\ base' = archive
    /\ kind' = "fresh"
    /\ first' = NoFirst

\* the same command again after a completed update, the export answering the same
MainCountUpdateAgain ==
    /\ pc = "done"
    /\ kind \in {"fresh", "rerun", "retry"}
    /\ BeginUpdate(page, payload)
    /\ base' = archive
    /\ kind' = "rerun"
    /\ first' = [files |-> DOMAIN archive, count |-> reported]

\* the same command again after a fragment failed, the export now answering
\* with the same fragments less the malformed ones
MainCountUpdateRetry ==
    /\ pc = "failed"
    /\ payload.hasPage
    /\ BeginUpdate(page, [hasPage |-> TRUE,
                          revisions |-> SelectSeq(payload.revisions, IsWellFormed)])
    /\ kind' = "retry"
    /\ UNCHANGED <<base, first>>

\* one iteration of the update loop carrying on after a fragment that fails
MainCountLoopStepIsolated ==
    /\ pc = "loop"
    /\ idx < Len(payload.revisions)
    /\ LET wiki_revision == payload.revisions[idx + 1]
           revision_path == construct_path(page, wiki_revision)
       IN IF ~revision_path.ok
          THEN /\ idx' = idx + 1
               /\ UNCHANGED <<archive, dirs, pc, error, written>>
          ELSE /\ dirs' = IF ~exists(archive, revision_path.path)
                          THEN mkdir_parents(dirs, revision_path.path)
                          ELSE dirs
               /\ archive' = write_text(archive, revision_path.path, wiki_revision)
               /\ written' = written \cup {<<page, wiki_revision>>}
               /\ idx' = idx + 1
               /\ UNCHANGED <<pc, error>>
    /\ UNCHANGED <<page, payload, base, kind, first, reported>>
    /\ UNCHANGED tableVars

\* one iteration of the update loop: construct_path, mkdir if absent, write_text
MainCountLoopStep ==
    /\ pc = "loop"
    /\ idx < Len(payload.revisions)
    /\ LET wiki_revision == payload.revisions[idx + 1]
           revision_path == construct_path(page, wiki_revision)
       IN IF ~revision_path.ok
          THEN /\ pc' = "failed"
               /\ error' = revision_path.why
               /\ UNCHANGED <<archive, dirs, idx, written>>
          ELSE /\ dirs' = IF ~exists(archive, revision_path.path)
                          THEN mkdir_parents(dirs, revision_path.path)
                          ELSE dirs
               /\ archive' = write_text(archive, revision_path.path, wiki_revision)
               /\ written' = written \cup {<<page, wiki_revision>>}
               /\ idx' = idx + 1
               /\ UNCHANGED <<pc, error>>
    /\ UNCHANGED <<page, payload, base, kind, first, reported>>
    /\ UNCHANGED tableVars

\* the loop is exhausted: count_files and the final report
MainCountFinish ==
    /\ pc = "loop"
    /\ idx = Len(payload.revisions)
    /\ reported' = <<count_files(archive, dirs, <<page>>, FALSE)>>
    /\ pc' = "done"
    /\ UNCHANGED <<archive, dirs, page, payload, idx, base, kind, first, error>>
    /\ UNCHANGED <<tableVars, written>>

\* main_count(update=False): count only
MainCountOnly ==
    /\ pc = "idle"
    /\ \E page_name \in Pages :
         /\ page' = page_name
         /\ reported' = <<count_files(archive, dirs, <<page_name>>, FALSE)>>
    /\ pc' = "done"
    /\ kind' = "count"
    /\ payload' = NoPayload
    /\ idx' = 0
    /\ error' = <<>>
    /\ base' = archive
    /\ first' = NoFirst
    /\ UNCHANGED <<archive, dirs, written>>
    /\ ResetTable

\* the process of an archival run has ended; what it was given and what it
\* printed are no longer looked at
MainCountExit ==
    /\ pc \in {"done", "failed"}
    /\ pc' = "idle"
    /\ payload' = NoPayload
    /\ idx' = 0
    /\ kind' = "fresh"
    /\ first' = NoFirst
    /\ reported' = <<>>
    /\ error' = <<>>
    /\ base' = archive
    /\ UNCHANGED <<archive, dirs, page, written>>
    /\ ResetTable

-----------------------------------------------------------------------------
(* The table builder: new_xml_to_dataframe.py *)

\* the content of a file that holds no revision element
NoRevision == [rev |-> FALSE, id |-> NONE, ts |-> NONE, hasText |-> FALSE, text |-> <<>>]

\* parse_revision_xml(xml_content): [ok, data]; not ok is the AttributeError of
\* revision.find on a missing revision element
parse_revision_xml(xml_content) ==
    IF ~xml_content.rev THEN [ok |-> FALSE, data |-> <<>>]
    ELSE LET text_content == IF xml_content.hasText THEN xml_content.text ELSE <<>> IN
         [ok |-> TRUE,
          data |-> [revision_id |-> xml_content.id,
                    timestamp |-> xml_content.ts,
                    text_length |-> Len(text_content)]]

\* the dictionary of one file: the parsed data plus year and month from the path
revision_row(fs, file_path) ==
    LET parsed == parse_revision_xml(fs[file_path]) IN
    [revision_id |-> parsed.data.revision_id,
     timestamp |-> parsed.data.timestamp,
     text_length |-> parsed.data.text_length,
     year |-> file_path[Len(file_path) - 2],
     month |-> file_path[Len(file_path) - 1]]

\* the inner loop over one batch: the rows of the files that parse
RECURSIVE revision_data(_, _)
revision_data(fs, batch) ==
    IF batch = <<>> THEN <<>>
    ELSE (IF parse_revision_xml(fs[Head(batch)]).ok
          THEN <<revision_row(fs, Head(batch))>> ELSE <<>>)
         \o revision_data(fs, Tail(batch))

\* the outer loop: one list of rows per batch that has any
RECURSIVE dataframes(_, _, _)
dataframes(fs, xml_files, batch_size) ==
    IF xml_files = <<>> THEN <<>>
    ELSE LET n == Min(batch_size, Len(xml_files))
             rows == revision_data(fs, SubSeq(xml_files, 1, n))
         IN (IF rows # <<>> THEN <<rows>> ELSE <<>>)
            \o dataframes(fs, SubSeq(xml_files, n + 1, Len(xml_files)), batch_size)

\* pd.concat(frames, ignore_index=True)
RECURSIVE concat(_)
concat(dfs) == IF dfs = <<>> THEN <<>> ELSE Head(dfs) \o concat(Tail(dfs))

\* pd.to_datetime on one cell: <<>> is NaT, <<d>> a time; not ok is its error.
\* The texts of TimestampTexts are ISO 8601 or unparseable, and on those it
\* accepts what strptime accepts.
to_datetime(cell) ==
    IF cell = NONE THEN [ok |-> TRUE, value |-> <<>>]
    ELSE IF StrptimeOf[cell].ok THEN [ok |-> TRUE, value |-> <<StrptimeOf[cell].value>>]
    ELSE [ok |-> FALSE, value |-> <<>>]

\* whether row a stands before row b when sorted by timestamp descending, NaT last
Before(a, b) ==
    IF a.timestamp = <<>> THEN b.timestamp = <<>>
    ELSE b.timestamp = <<>> \/ TimeLeq(b.timestamp[1], a.timestamp[1])

RECURSIVE insert_row(_, _)
insert_row(row, sorted) ==
    IF sorted = <<>> THEN <<row>>
    ELSE IF Before(Head(sorted), row) THEN <<Head(sorted)>> \o insert_row(row, Tail(sorted))
    ELSE <<row>> \o sorted

\* DataFrame.sort_values('timestamp', ascending=False).  Rows of equal timestamp
\* keep their order here; every order of such rows arises from some order of
\* enumeration of the files, which is chosen freely.
RECURSIVE sort_values(_)
sort_values(rows) ==
    IF rows = <<>> THEN <<>>
    ELSE insert_row(rows[Len(rows)], sort_values(SubSeq(rows, 1, Len(rows) - 1)))

\* Path.glob("*/**/*.xml") under the article directory
glob_xml(fs, article_dir) ==
    {p \in DOMAIN fs : /\ IsUnder(p, article_dir)
                      /\ Len(p) >= Len(article_dir) + 2
                      /\ p[Len(p)][2] = "xml"}

\* process_article_directory(article_dir, batch_size); listing gives the order in
\* which the file system enumerates files.  status: "none" (returns None),
\* "frame" (returns rows), "raised" (pd.to_datetime raises)
process_article_directory(fs, article_dir, listing, batch_size) ==
    LET xml_files == SelectSeq(listing, LAMBDA p : p \in glob_xml(fs, article_dir))
        failing == {xml_files[i] : i \in {k \in 1..Len(xml_files) :
                                           ~parse_revision_xml(fs[xml_files[k]]).ok}}
        dfs == dataframes(fs, xml_files, batch_size)
        final_df == concat(dfs)
        stamped == [i \in 1..Len(final_df) |->
                       [final_df[i] EXCEPT !.timestamp = to_datetime(@).value]]
    IN IF xml_files = <<>> THEN [status |-> "none", rows |-> <<>>, logged |-> {}]
       ELSE IF dfs = <<>> THEN [status |-> "none", rows |-> <<>>, logged |-> failing]
       ELSE IF \E i \in 1..Len(final_df) : ~to_datetime(final_df[i].timestamp).ok
       THEN [status |-> "raised", rows |-> <<>>, logged |-> failing]
       ELSE [status |-> "frame", rows |-> sort_values(stamped), logged |-> failing]

Perms(S) == {s \in [1..Cardinality(S) -> S] : \A i, j \in 1..Cardinality(S) : s[i] = s[j] => i = j}

\* the calls main makes, article directories taken in the order dir_order; after
\* a call that raises no further call is made
RECURSIVE article_frames(_, _, _, _, _)
article_frames(fs, dir_order, listing, batch_size, acc) ==
    IF dir_order = <<>> THEN acc
    ELSE LET df == process_article_directory(fs, <<Head(dir_order)>>, listing, batch_size) IN
         IF df.status = "raised" THEN [acc EXCEPT ![Head(dir_order)] = df]
         ELSE article_frames(fs, Tail(dir_order), listing, batch_size,
                             [acc EXCEPT ![Head(dir_order)] = df])

\* combined_dataframes, concatenated
RECURSIVE combined(_, _)
combined(fr, dir_order) ==
    IF dir_order = <<>> THEN <<>>
    ELSE fr[Head(dir_order)].rows \o combined(fr, Tail(dir_order))

\* main(data_dir, output_dir, batch_size): one table build over the storage root
Main ==
    /\ pc = "idle"
    /\ \E dir_order \in Perms({a \in Articles : <<a>> \in dirs}),
          listing \in Perms(DOMAIN archive),
          batch_size \in 1..MaxBatchSize :
         LET fr == article_frames(archive, dir_order, listing, batch_size, NoFrames) IN
         /\ frames' = fr
         /\ logged' = UNION {fr[a].logged : a \in Articles}
         /\ IF \E a \in Articles : fr[a].status = "raised"
            THEN tableStatus' = "raised" /\ table' = <<>>
            ELSE IF \A a \in Articles : fr[a].status # "frame"
            THEN tableStatus' = "empty" /\ table' = <<>>
            ELSE tableStatus' = "saved" /\ table' = combined(fr, dir_order)
    /\ UNCHANGED <<archive, dirs, written>>
    /\ UNCHANGED runVars

-----------------------------------------------------------------------------
(* Specification of the archival runs *)

\* another article's archive, written earlier, stands beside the page's
CityRevision == Fragment("900", NovText, FALSE)

StartArchive == save_revision(EmptyArchive, "City", CityRevision)

DirsOf(fs) == UNION {Ancestors(p) : p \in DOMAIN fs}

InitRun ==
    /\ pc = "idle"
    /\ page = "Town"
    /\ payload = NoPayload
    /\ idx = 0
    /\ kind = "fresh"
    /\ first = NoFirst
    /\ reported = <<>>
    /\ error = <<>>
    /\ tableStatus = "none"
    /\ table = <<>>
    /\ frames = NoFrames
    /\ logged = {}

Init ==
    /\ archive = StartArchive
    /\ dirs = DirsOf(archive)
    /\ base = archive
    /\ written = {<<"City", CityRevision>>}
    /\ InitRun

Next ==
    \/ MainCountUpdate
    \/ MainCountUpdateAgain
    \/ MainCountUpdateRetry
    \/ MainCountLoopStep
    \/ MainCountFinish
    \/ MainCountOnly
    \/ MainCountExit
    \/ Main

Spec == Init /\ [][Next]_vars

-----------------------------------------------------------------------------
(* Specification of the table builder started on an archive as found *)

\* what may have become of the file of a fragment since it was written
Damaged(f) == {f, [f EXCEPT !.ts = BadText], [f EXCEPT !.ts = NONE], NoRevision}

BuilderFragments ==
    {Fragment("101", MarText, TRUE), Fragment("101", NovText, TRUE),
     Fragment("102", MarText, TRUE)}

AllowedAt(path) ==
    UNION {Damaged(f) : f \in {g \in BuilderFragments :
                                  \E a \in Articles : construct_path(a, g).path = path}}

BuilderPaths == {construct_path(a, f).path : a \in Articles, f \in BuilderFragments}

BuilderContents == UNION {Damaged(f) : f \in BuilderFragments}

BuilderArchives ==
    UNION {{fs \in [S -> BuilderContents] : \A p \in S : fs[p] \in AllowedAt(p)} :
              S \in {T \in SUBSET BuilderPaths : Cardinality(T) <= MaxFiles}}

InitBuild ==
    /\ archive \in BuilderArchives
    /\ dirs = DirsOf(archive) \cup {<<a>> : a \in Articles}
    /\ base = archive
    /\ written = {}
    /\ InitRun

NextBuild == Main

SpecBuild == InitBuild /\ [][NextBuild]_vars

-----------------------------------------------------------------------------
(* Properties *)

WrittenTo(page_name) == {w[2] : w \in {v \in written : v[1] = page_name}}

IdOf(f) == extract_id(f).value
YearOf(f) == find_timestamp(f).value.year
MonthOf(f) == find_timestamp(f).value.month
PathOf(page_name, f) == construct_path(page_name, f).path

\* C1 (as claimed): a step never changes a file that already exists: every
\* existing path still exists after the step and holds the same content.
C1_ExistingFilesUntouched ==
    [][\A p \in DOMAIN archive : p \in DOMAIN archive' /\ archive'[p] = archive[p]]_vars

\* C2: when an update that completed is run again with the same page and the
\* same payload, the second run ends with the same set of file paths and
\* reports the same count as the first.
C2_UpdateIdempotent ==
    (pc = "done" /\ kind = "rerun") =>
        /\ DOMAIN archive = first.files
        /\ reported = first.count

C2_Witness ==
    /\ pc = "done" /\ kind = "rerun"
    /\ Len(payload.revisions) >= 2
    /\ reported = <<2>>

\* C3 (as claimed): for a fixed page, two written fragments resolve to the same
\* path exactly when they carry the same revision id.
C3_PathByIdAlone ==
    \A page_name \in Articles : \A f, g \in WrittenTo(page_name) :
        (PathOf(page_name, f) = PathOf(page_name, g)) <=> (IdOf(f) = IdOf(g))

\* C3 (amended): for a fixed page, two well-formed fragments resolve to the same
\* path exactly when they carry the same revision id and their timestamps fall
\* in the same calendar year and month; in particular different ids resolve to
\* different paths.
C3_PathByIdAndMonth ==
    \A page_name \in Articles : \A f, g \in WrittenTo(page_name) :
        (PathOf(page_name, f) = PathOf(page_name, g))
            <=> (IdOf(f) = IdOf(g) /\ YearOf(f) = YearOf(g) /\ MonthOf(f) = MonthOf(g))

C3_Witness ==
    \E f, g, h \in WrittenTo("Town") :
        /\ IdOf(f) = IdOf(g) /\ MonthOf(f) # MonthOf(g)
        /\ IdOf(f) # IdOf(h) /\ MonthOf(f) = MonthOf(h)

\* the files of an article directory whose timestamp text does not parse
Unparseable(fs, a) ==
    {p \in glob_xml(fs, <<a>>) : fs[p].rev /\ ~to_datetime(fs[p].ts).ok}

\* the files of an article directory that parse in full
Sound(fs, a) ==
    {p \in glob_xml(fs, <<a>>) :
        fs[p].rev /\ fs[p].id # NONE /\ fs[p].ts # NONE /\ to_datetime(fs[p].ts).ok}

\* C4 (as claimed): when process_article_directory is called on a directory of
\* N >= 2 files of which exactly one has an unparseable timestamp and the others
\* are sound, it returns a table of N - 1 rows, logs that file, and raises
\* nothing.
C4_CorruptFileIsolated ==
    \A a \in Articles :
        (/\ frames[a].status # "notrun"
         /\ Cardinality(glob_xml(archive, <<a>>)) >= 2
         /\ Cardinality(Unparseable(archive, a)) = 1
         /\ Sound(archive, a) = glob_xml(archive, <<a>>) \ Unparseable(archive, a))
        => /\ frames[a].status = "frame"
           /\ Len(frames[a].rows) = Cardinality(glob_xml(archive, <<a>>)) - 1
           /\ Unparseable(archive, a) \subseteq frames[a].logged

\* C5: an update whose payload holds no page marker ends failed with the error
\* naming the requested title, before any fragment is taken up; no file and no
\* directory is created or changed, nothing is reported, and the count of the
\* page's directory is what it was before the run.
C5_PageNotFoundLeavesArchive ==
    (pc # "idle" /\ kind = "fresh" /\ ~payload.hasPage) =>
        /\ pc = "failed"
        /\ error = <<"Page", page, "does not exist">>
        /\ idx = 0
        /\ archive = base
        /\ dirs = DirsOf(base)
        /\ reported = <<>>
        /\ count_files(archive, dirs, <<page>>, FALSE)
               = count_files(base, DirsOf(base), <<page>>, FALSE)

C5_Witness ==
    /\ pc = "failed" /\ kind = "fresh" /\ ~payload.hasPage
    /\ Len(payload.revisions) >= 1
    /\ IsWellFormed(payload.revisions[1])
    /\ count_files(archive, dirs, <<page>>, FALSE) >= 1

\* C6 (as claimed): the count of the page's directory, empty at the start,
\* equals the number of distinct revision ids written to it.
C6_CountIsDistinctIds ==
    \A page_name \in Pages :
        count_files(archive, dirs, <<page_name>>, FALSE)
            = Cardinality({IdOf(f) : f \in WrittenTo(page_name)})

\* C6 (amended): the count of the page's directory, empty at the start, equals
\* the number of distinct (id, year, month) written to it; writing a fragment
\* whose id, year and month are already present does not change the count.
C6_CountIsDistinctIdMonths ==
    \A page_name \in Pages :
        count_files(archive, dirs, <<page_name>>, FALSE)
            = Cardinality({<<IdOf(f), YearOf(f), MonthOf(f)>> : f \in WrittenTo(page_name)})

C6_Witness ==
    /\ count_files(archive, dirs, <<"Town">>, FALSE) = 2
    /\ Cardinality(WrittenTo("Town")) = 3

\* C7 (as claimed): the combined table is ordered by timestamp descending over
\* all of its rows.
C7_CombinedTableSorted ==
    tableStatus = "saved" =>
        \A i, j \in 1..Len(table) : i < j => Before(table[i], table[j])

\* Beside C7: the table of each single article is ordered by timestamp
\* descending (the sort of process_article_directory); it is the concatenation
\* in main that is not.
ArticleTablesSorted ==
    \A a \in Articles :
        \A i, j \in 1..Len(frames[a].rows) :
            i < j => Before(frames[a].rows[i], frames[a].rows[j])

\* the rows of the table that give back fragment f
RowsFor(f) ==
    {i \in 1..Len(table) :
        /\ table[i].revision_id = IdOf(f)
        /\ table[i].timestamp = <<find_timestamp(f).value>>
        /\ table[i].text_length = Len(f.text)}

\* C8 (as claimed): every fragment an update run wrote has exactly one row in a
\* later table, with its id, its timestamp and the length of its body.
C8_RoundTrip ==
    tableStatus = "saved" =>
        \A w \in written : Cardinality(RowsFor(w[2])) = 1

\* C9: an update run never takes up a fragment after the first malformed one:
\* it ends failed there, with exactly the fragments before it written on top of
\* the archive it started from and no count reported, and it completes only
\* when no fragment is malformed.  Run again with the malformed fragments gone,
\* it ends with the file set of that run started from the same archive with no
\* failure in between.
C9_FatalOnFirstError ==
    LET revisions == payload.revisions
        j == FirstMalformed(revisions)
    IN /\ (pc # "idle" /\ kind = "fresh" /\ payload.hasPage) =>
            /\ idx <= j - 1
            /\ pc = "done" => j = Len(revisions) + 1
            /\ pc = "failed" =>
                /\ j <= Len(revisions)
                /\ idx = j - 1
                /\ archive = save_all(base, page, SubSeq(revisions, 1, j - 1))
                /\ reported = <<>>
       /\ (pc = "done" /\ kind = "retry") =>
            DOMAIN archive = DOMAIN save_all(base, page, revisions)

C9_Witness ==
    /\ pc = "done" /\ kind = "retry"
    /\ Len(payload.revisions) >= 1
    /\ DOMAIN archive # DOMAIN base

\* C10: every row of a table built over files the archival run wrote has, as
\* year and month, the 4-digit year and the 2-digit zero-padded month of the
\* timestamp parsed from the file.
C10_PartitionMatchesTimestamp ==
    tableStatus = "saved" =>
        \A i \in 1..Len(table) :
            /\ table[i].timestamp # <<>>
            /\ table[i].year = ZFill(IntToStr(table[i].timestamp[1].year), 4)
            /\ table[i].month = ZFill(IntToStr(table[i].timestamp[1].month), 2)

C10_Witness ==
    /\ tableStatus = "saved"
    /\ \E i \in 1..Len(table) : table[i].month = <<"0", "3">> /\ table[i].revision_id = "102"

====
